---- MODULE Spec2Model ----
(***************************************************************************)
(* black_primer command line driver (src/src/black_primer/cli.py): the     *)
(* --projects callback, async_main, and the queue processor                *)
(* lib.process_queue that async_main awaits.  lib.py is not part of the    *)
(* sources at hand; the queue processor, its workers and the result        *)
(* recorder are modelled from spec.md sections 3, 4.3, 4.4, 5 and 7.       *)
(***************************************************************************)
EXTENDS Integers, Sequences, FiniteSets, TLC

\* Longest --projects string explored.
MaxLen == 3
\* Largest --workers value explored.
MaxWorkers == 2

\* Characters a --projects string is made of: two letters and the separator.
Alphabet == {"a", "b", ","}

\* Code point of a character (Python compares str by code point).
Ord(c) == CASE c = "," -> 44 [] c = "a" -> 97 [] c = "b" -> 98

Strings == UNION {[1..n -> Alphabet] : n \in 0..MaxLen}

\* Python's str < str: lexicographic by code point, a proper prefix is smaller.
RECURSIVE StrLess(_, _)
StrLess(s, t) ==
    IF t = <<>> THEN FALSE
    ELSE IF s = <<>> THEN TRUE
    ELSE IF Head(s) # Head(t) THEN Ord(Head(s)) < Ord(Head(t))
    ELSE StrLess(Tail(s), Tail(t))

\* str.split(","): one more part than there are separators, empty parts kept.
RECURSIVE SplitAcc(_, _, _)
SplitAcc(s, cur, acc) ==
    IF s = <<>> THEN Append(acc, cur)
    ELSE IF Head(s) = "," THEN SplitAcc(Tail(s), <<>>, Append(acc, cur))
    ELSE SplitAcc(Tail(s), Append(cur, Head(s)), acc)

Split(s) == SplitAcc(s, <<>>, <<>>)

\* set(list)
ToSet(seq) == {seq[i] : i \in DOMAIN seq}

\* sorted(set): the elements in ascending order.
RECURSIVE Sorted(_)
Sorted(S) ==
    IF S = {} THEN <<>>
    ELSE LET m == CHOOSE x \in S : \A y \in S \ {x} : StrLess(x, y)
         IN  <<m>> \o Sorted(S \ {m})

\* The keys of the "projects" object of the configuration file.
ConfigProjects == {<<"a">>, <<"b">>}

\* load_projects: the sorted project names of the configuration.
load_projects == Sorted(ConfigProjects)

DEFAULT_PROJECTS == load_projects

\* A wrong callback: the requested names that are available, in the order
\* given, repeated as often as they were given.
RECURSIVE KeepAvailable(_)
KeepAvailable(seq) ==
    IF seq = <<>> THEN <<>>
    ELSE IF Head(seq) \in ConfigProjects
         THEN <<Head(seq)>> \o KeepAvailable(Tail(seq))
         ELSE KeepAvailable(Tail(seq))

ProjectsCallbackAsGiven(projects_str) == KeepAvailable(Split(projects_str))

\* _projects_callback: sorted(requested_projects & available_projects).
ProjectsCallback(projects_str) ==
    LET requested_projects == ToSet(Split(projects_str))
        available_projects == ToSet(DEFAULT_PROJECTS)
    IN  Sorted(requested_projects \cap available_projects)

\* What the repository of a project is like for the whole run.
RepoStates == {"unreachable", "clean", "diff", "crash"}

\* Checkout Manager: the checkout of a project succeeds unless CheckoutError.
CheckoutOk(r) == r # "unreachable"

\* Formatter Runner: the formatter's exit code on a checked-out project.
ExitCode(r) == CASE r = "clean" -> 0 [] r = "diff" -> 1 [] OTHER -> 123

\* Result Recorder: the terminal outcome a FormatResult is recorded as.
FormatOutcome(code) ==
    IF code = 0 THEN "clean" ELSE IF code = 1 THEN "changed" ELSE "format_failed"

Terminal == {"checkout_failed", "format_failed", "clean", "changed"}

NoResult == [kind |-> "none", value |-> 0, exc |-> "none"]

Raise(e) == [kind |-> "raise", value |-> 0, exc |-> e]

\* A wrong return: the count is dropped.
AsyncMainReturnZero(ret_val) == [kind |-> "return", value |-> 0, exc |-> "none"]

\* return int(ret_val)
AsyncMainReturn(ret_val) == [kind |-> "return", value |-> ret_val, exc |-> "none"]

VARIABLES
    projectsArg,  \* the --projects string
    keep,         \* --keep
    workers,      \* --workers
    workdir,      \* "exists", "absent" or "uncreatable" (absent, mkdir fails)
    tanOnPath,    \* whether which("tan") finds the formatter
    repo,         \* the state of each configured project's repository
    pc,           \* where main/async_main stands
    projects,     \* the list the callback returned
    pending,      \* what the try block ended with, held while finally runs
    result,       \* how async_main ended
    invoked,      \* lib.process_queue has been called
    workItems,    \* the work queue as seeded
    queue,        \* the work queue
    wpc,          \* each worker's position
    wcur,         \* each worker's current project
    summary,      \* RunSummary: each project's state
    recorded,     \* how often an outcome was recorded for each project
    events,       \* per project, the subprocess events in order
    cleanups      \* how often the working directory was removed

vars == <<projectsArg, keep, workers, workdir, tanOnPath, repo, pc, projects,
          pending, result, invoked, workItems, queue, wpc, wcur, summary,
          recorded, events, cleanups>>

inputs == <<projectsArg, keep, workers, tanOnPath, repo>>

poolVars == <<workItems, queue, wpc, wcur, summary, recorded, events>>

WorkerIds == 1..MaxWorkers

NoProject == <<",">>

Init ==
    /\ projectsArg \in Strings
    /\ keep \in BOOLEAN
    /\ workers \in 1..MaxWorkers
    /\ workdir \in {"exists", "absent", "uncreatable"}
    /\ tanOnPath \in BOOLEAN
    /\ repo \in [ConfigProjects -> RepoStates]
    /\ pc = "cli"
    /\ projects = <<>>
    /\ pending = NoResult
    /\ result = NoResult
    /\ invoked = FALSE
    /\ workItems = <<>>
    /\ queue = <<>>
    /\ wpc = [w \in WorkerIds |-> "none"]
    /\ wcur = [w \in WorkerIds |-> NoProject]
    /\ summary = [p \in ConfigProjects |-> "none"]
    /\ recorded = [p \in ConfigProjects |-> 0]
    /\ events = [p \in ConfigProjects |-> <<>>]
    /\ cleanups = 0

\* main: click runs the --projects callback, then async_main starts.
ParseProjects ==
    /\ pc = "cli"
    /\ projects' = ProjectsCallback(projectsArg)
    /\ pc' = "mkdir"
    /\ UNCHANGED <<inputs, workdir, pending, result, invoked, poolVars, cleanups>>

\* async_main: if not work_path.exists(): work_path.mkdir()
EnsureWorkdir ==
    /\ pc = "mkdir"
    /\ IF workdir = "uncreatable"
       THEN /\ result' = Raise("OSError")
            /\ pc' = "done"
            /\ UNCHANGED workdir
       ELSE /\ workdir' = "exists"
            /\ pc' = "which"
            /\ UNCHANGED result
    /\ UNCHANGED <<inputs, projects, pending, invoked, poolVars, cleanups>>

\* A wrong check: the formatter is not looked for.
WhichTanSkipped ==
    /\ pc = "which"
    /\ pc' = "call"
    /\ UNCHANGED <<inputs, workdir, projects, pending, result, invoked,
                   poolVars, cleanups>>

\* async_main: if not which("tan"): return -1
WhichTan ==
    /\ pc = "which"
    /\ IF ~tanOnPath
       THEN /\ result' = AsyncMainReturn(-1)
            /\ pc' = "done"
       ELSE /\ pc' = "call"
            /\ UNCHANGED result
    /\ UNCHANGED <<inputs, workdir, projects, pending, invoked, poolVars, cleanups>>

\* Queue Processor: the queue is seeded with one WorkItem per project, in the
\* order supplied, the summary starts pending, and the workers are started.
ProcessQueueStart(projs, nworkers) ==
    /\ workItems' = projs
    /\ queue' = projs
    /\ summary' = [p \in ConfigProjects |->
                     IF p \in ToSet(projs) THEN "pending" ELSE "none"]
    /\ wpc' = [w \in WorkerIds |-> IF w <= nworkers THEN "idle" ELSE "none"]
    /\ UNCHANGED <<wcur, recorded, events>>

\* A wrong call: every default project is run, whatever was selected.
CallProcessQueueAllProjects ==
    /\ pc = "call"
    /\ invoked' = TRUE
    /\ ProcessQueueStart(DEFAULT_PROJECTS, workers)
    /\ pc' = "process"
    /\ UNCHANGED <<inputs, workdir, projects, pending, result, cleanups>>

\* async_main: ret_val = await lib.process_queue(config, work_path, workers, projects, ...)
CallProcessQueue ==
    /\ pc = "call"
    /\ invoked' = TRUE
    /\ ProcessQueueStart(projects, workers)
    /\ pc' = "process"
    /\ UNCHANGED <<inputs, workdir, projects, pending, result, cleanups>>

\* Result Recorder: record(project_name, result)
Record(p, outcome) ==
    /\ summary' = [summary EXCEPT ![p] = outcome]
    /\ recorded' = [recorded EXCEPT ![p] = @ + 1]

\* Worker: dequeue one WorkItem and start its checkout.
Dequeue(w) ==
    /\ pc = "process"
    /\ wpc[w] = "idle"
    /\ queue # <<>>
    /\ wcur' = [wcur EXCEPT ![w] = Head(queue)]
    /\ queue' = Tail(queue)
    /\ wpc' = [wpc EXCEPT ![w] = "checkout"]
    /\ events' = [events EXCEPT ![Head(queue)] = Append(@, "checkout_start")]
    /\ UNCHANGED <<inputs, workdir, pc, projects, pending, result, invoked,
                   workItems, summary, recorded, cleanups>>

\* A wrong worker: the formatter is run whatever the checkout did.
CheckoutDoneUnchecked(w) ==
    /\ pc = "process"
    /\ wpc[w] = "checkout"
    /\ wpc' = [wpc EXCEPT ![w] = "format"]
    /\ events' = [events EXCEPT ![wcur[w]] =
                    @ \o <<(IF CheckoutOk(repo[wcur[w]])
                            THEN "checkout_ok" ELSE "checkout_error"),
                           "format_start">>]
    /\ UNCHANGED <<inputs, workdir, pc, projects, pending, result, invoked,
                   workItems, queue, wcur, summary, recorded, cleanups>>

\* A wrong worker: a CheckoutError ends the worker.
CheckoutDoneFatal(w) ==
    /\ pc = "process"
    /\ wpc[w] = "checkout"
    /\ IF CheckoutOk(repo[wcur[w]])
       THEN /\ wpc' = [wpc EXCEPT ![w] = "format"]
            /\ events' = [events EXCEPT ![wcur[w]] =
                            @ \o <<"checkout_ok", "format_start">>]
            /\ UNCHANGED <<summary, recorded>>
       ELSE /\ wpc' = [wpc EXCEPT ![w] = "exited"]
            /\ events' = [events EXCEPT ![wcur[w]] = Append(@, "checkout_error")]
            /\ Record(wcur[w], "checkout_failed")
    /\ UNCHANGED <<inputs, workdir, pc, projects, pending, result, invoked,
                   workItems, queue, wcur, cleanups>>

\* Worker: the checkout ends; on success the formatter is started, on a
\* CheckoutError the project is recorded as a checkout failure and the worker
\* goes on with the queue.
CheckoutDone(w) ==
    /\ pc = "process"
    /\ wpc[w] = "checkout"
    /\ IF CheckoutOk(repo[wcur[w]])
       THEN /\ wpc' = [wpc EXCEPT ![w] = "format"]
            /\ events' = [events EXCEPT ![wcur[w]] =
                            @ \o <<"checkout_ok", "format_start">>]
            /\ UNCHANGED <<summary, recorded>>
       ELSE /\ wpc' = [wpc EXCEPT ![w] = "idle"]
            /\ events' = [events EXCEPT ![wcur[w]] = Append(@, "checkout_error")]
            /\ Record(wcur[w], "checkout_failed")
    /\ UNCHANGED <<inputs, workdir, pc, projects, pending, result, invoked,
                   workItems, queue, wcur, cleanups>>

\* Worker: the formatter ends and its FormatResult is recorded.
FormatDone(w) ==
    /\ pc = "process"
    /\ wpc[w] = "format"
    /\ events' = [events EXCEPT ![wcur[w]] = Append(@, "format_done")]
    /\ Record(wcur[w], FormatOutcome(ExitCode(repo[wcur[w]])))
    /\ wpc' = [wpc EXCEPT ![w] = "idle"]
    /\ UNCHANGED <<inputs, workdir, pc, projects, pending, result, invoked,
                   workItems, queue, wcur, cleanups>>

\* ToolInvocationError: the formatter cannot be started any more; the queue
\* processor ends the workers and raises, and async_main's finally runs.
FormatterVanishes(w) ==
    /\ pc = "process"
    /\ wpc[w] = "format"
    /\ wpc' = [v \in WorkerIds |->
                 IF wpc[v] \in {"none", "exited"} THEN wpc[v] ELSE "cancelled"]
    /\ pending' = Raise("ToolInvocationError")
    /\ pc' = "finally"
    /\ UNCHANGED <<inputs, workdir, projects, result, invoked, workItems, queue,
                   wcur, summary, recorded, events, cleanups>>

\* Worker: the queue is closed and empty, the worker ends.
WorkerExit(w) ==
    /\ pc = "process"
    /\ wpc[w] = "idle"
    /\ queue = <<>>
    /\ wpc' = [wpc EXCEPT ![w] = "exited"]
    /\ UNCHANGED <<inputs, workdir, pc, projects, pending, result, invoked,
                   workItems, queue, wcur, summary, recorded, events, cleanups>>

\* Result Recorder: the aggregate exit code, the number of projects not clean.
Finalize == Cardinality({p \in ConfigProjects : summary[p] \notin {"none", "clean"}})

\* async_main: process_queue returns once every worker has ended;
\* return int(ret_val) is held until the finally block has run.
ProcessQueueReturns ==
    /\ pc = "process"
    /\ \A w \in WorkerIds : wpc[w] \in {"none", "exited"}
    /\ pending' = AsyncMainReturn(Finalize)
    /\ pc' = "finally"
    /\ UNCHANGED <<inputs, workdir, projects, result, invoked, poolVars, cleanups>>

\* A wrong finally: the working directory is removed whatever keep says.
FinallyIgnoringKeep ==
    /\ pc = "finally"
    /\ IF workdir = "exists"
       THEN /\ workdir' = "absent"
            /\ cleanups' = cleanups + 1
       ELSE UNCHANGED <<workdir, cleanups>>
    /\ result' = pending
    /\ pc' = "done"
    /\ UNCHANGED <<inputs, projects, pending, invoked, poolVars>>

\* async_main: finally: if not keep and work_path.exists(): rmtree(work_path, ...)
Finally ==
    /\ pc = "finally"
    /\ IF ~keep /\ workdir = "exists"
       THEN /\ workdir' = "absent"
            /\ cleanups' = cleanups + 1
       ELSE UNCHANGED <<workdir, cleanups>>
    /\ result' = pending
    /\ pc' = "done"
    /\ UNCHANGED <<inputs, projects, pending, invoked, poolVars>>

Next ==
    \/ ParseProjects
    \/ EnsureWorkdir
    \/ WhichTan
    \/ CallProcessQueue
    \/ \E w \in WorkerIds : Dequeue(w)
    \/ \E w \in WorkerIds : CheckoutDone(w)
    \/ \E w \in WorkerIds : FormatDone(w)
    \/ \E w \in WorkerIds : FormatterVanishes(w)
    \/ \E w \in WorkerIds : WorkerExit(w)
    \/ ProcessQueueReturns
    \/ Finally

Spec == Init /\ [][Next]_vars

(***************************************************************************)
(* Properties                                                              *)
(***************************************************************************)

Finished == pc = "done"

Returned == pc = "done" /\ result.kind = "return"

Running(w) == wpc[w] \in {"idle", "checkout", "format"}

\* n is one of the comma separated fields of the --projects string.
IsField(n, i) ==
    LET padded == <<",">> \o projectsArg \o <<",">>
        target == <<",">> \o n \o <<",">>
    IN  /\ i + Len(target) - 1 <= Len(padded)
        /\ SubSeq(padded, i, i + Len(target) - 1) = target

Positions == 1..(Len(projectsArg) + 2)

\* The configured projects the caller asked for.
Selected == {n \in ConfigProjects : \E i \in Positions : IsField(n, i)}

\* Where a selected project is first named in the --projects string.
FirstPos(n) == CHOOSE i \in Positions :
                   IsField(n, i) /\ \A j \in Positions : IsField(n, j) => i <= j

\* The outcome the fixed repository state gives a project.
RepoOutcome(p) ==
    IF CheckoutOk(repo[p]) THEN FormatOutcome(ExitCode(repo[p]))
    ELSE "checkout_failed"

C2_ReturnCode ==
    /\ invoked => result.value # -1 /\ pending.value # -1
    /\ (Returned /\ invoked) =>
          /\ result.value =
                Cardinality({p \in ToSet(workItems) : summary[p] \in Terminal \ {"clean"}})
          /\ (result.value = 0) <=> (\A p \in ToSet(workItems) : summary[p] = "clean")

C2_Witness ==
    /\ Returned
    /\ invoked
    /\ result.value = 1
    /\ \E p \in ConfigProjects : summary[p] = "clean"

\* C3: no outcome is recorded twice, a project has left pending exactly when
\* one outcome was recorded for it, and when process returns every enqueued
\* project has exactly one terminal outcome.
C3_ExactlyOneOutcome ==
    /\ \A p \in ConfigProjects :
          /\ recorded[p] <= 1
          /\ (recorded[p] = 1) <=> (summary[p] \in Terminal)
    /\ (Returned /\ invoked) =>
          \A i \in DOMAIN workItems :
              summary[workItems[i]] \in Terminal /\ recorded[workItems[i]] = 1

C3_Witness ==
    /\ Returned
    /\ invoked
    /\ Len(workItems) = 2
    /\ workers = 2
    /\ \A p \in ConfigProjects : recorded[p] = 1

\* C4 (state): when process returns, a project whose checkout fails is
\* recorded checkout-failed and counted, and every other project has the
\* outcome of its own repository.
C4_State ==
    (Returned /\ invoked) =>
        /\ \A p \in ToSet(workItems) : summary[p] = RepoOutcome(p)
        /\ result.value >=
              Cardinality({p \in ToSet(workItems) : ~CheckoutOk(repo[p])})

\* C4 (step): the step in which a worker's checkout fails records the project
\* as checkout-failed, leaves that worker ready to dequeue again, and changes
\* no other worker and not the processor.
C4_Step ==
    \A w \in WorkerIds :
        (/\ wpc[w] = "checkout"
         /\ events'[wcur[w]] = Append(events[wcur[w]], "checkout_error"))
        => /\ wpc'[w] = "idle"
           /\ summary'[wcur[w]] = "checkout_failed"
           /\ \A v \in WorkerIds \ {w} : wpc'[v] = wpc[v]
           /\ \A q \in ConfigProjects \ {wcur[w]} : summary'[q] = summary[q]
           /\ queue' = queue
           /\ pc' = "process"

\* C4: a checkout failure is recorded as a failure of that project only; it
\* neither stops its worker nor any sibling, and the other projects reach
\* their own terminal outcome.
C4_CheckoutIsolated == [](C4_State) /\ [][C4_Step]_vars

C4_Witness ==
    /\ Returned
    /\ workers = 1
    /\ Len(workItems) = 2
    /\ summary[workItems[1]] = "checkout_failed"
    /\ summary[workItems[2]] = "clean"
    /\ result.value = 1

\* C5: the aggregate return code is a function of the selected projects and
\* the repository state alone, whatever the number of workers and their
\* interleaving.
C5_WorkersIndependent ==
    (Returned /\ invoked) =>
        result.value = Cardinality({p \in Selected : RepoOutcome(p) # "clean"})

C5_Witness ==
    /\ Returned
    /\ invoked
    /\ workers >= 2
    /\ Cardinality(Selected) = 2
    /\ result.value = 1

\* C6 (as claimed): in a run that returns with keep not set the working
\* directory was removed exactly once.
C6_Original ==
    /\ (Returned /\ ~keep) => cleanups = 1
    /\ keep => cleanups = 0

\* C6 (amended): the working directory is removed at most once, only with
\* keep not set, only after the queue processor was invoked and has ended with
\* no worker running; exactly once in each such run; never when the run ends
\* before the queue processor is invoked, and never when keep is set.
C6_Cleanup ==
    /\ cleanups <= 1
    /\ cleanups = 1 =>
          /\ ~keep
          /\ invoked
          /\ Finished
          /\ \A w \in WorkerIds : ~Running(w)
    /\ (Finished /\ invoked /\ ~keep) => (cleanups = 1 /\ workdir = "absent")
    /\ (Finished /\ ~invoked) => cleanups = 0
    /\ (Finished /\ ~invoked /\ result.kind = "return") => workdir = "exists"
    /\ (keep /\ pc \notin {"cli", "mkdir"} /\ workdir # "uncreatable")
          => (cleanups = 0 /\ workdir = "exists")

C6_Witness ==
    /\ Finished
    /\ ~keep
    /\ cleanups = 1
    /\ result.kind = "return"
    /\ workers = 2
    /\ \A w \in WorkerIds : wpc[w] = "exited"

\* C7 (as claimed): when the working directory cannot be created no worker
\* starts and the run returns -1.
C7_Original ==
    workdir = "uncreatable" =>
        /\ ~invoked
        /\ \A w \in WorkerIds : wpc[w] = "none"
        /\ Finished => (result.kind = "return" /\ result.value = -1)

\* C8 (as claimed): the queue holds each selected project once, in the order
\* in which the caller first named them.
C8_Original ==
    invoked =>
        /\ ToSet(workItems) = Selected
        /\ Len(workItems) = Cardinality(Selected)
        /\ \A i, j \in DOMAIN workItems :
              i < j => FirstPos(workItems[i]) < FirstPos(workItems[j])

\* C8 (amended): the queue holds each selected project once, in ascending
\* order of the names, whatever the order in which the caller named them.
C8_SortedQueue ==
    invoked =>
        /\ ToSet(workItems) = Selected
        /\ Len(workItems) = Cardinality(Selected)
        /\ \A i, j \in DOMAIN workItems :
              i < j => StrLess(workItems[i], workItems[j])

C8_Witness ==
    /\ invoked
    /\ Len(workItems) = 2
    /\ FirstPos(workItems[2]) < FirstPos(workItems[1])

\* C9 (as claimed): whenever the queue processor is invoked the projects it
\* receives are non-empty and all configured.
C9_Original ==
    invoked => (projects # <<>> /\ ToSet(projects) \subseteq ConfigProjects)

\* C10: per project the events are a prefix of checkout start, checkout ok,
\* format start, format done, or of checkout start, checkout error; a project
\* whose checkout failed has no formatter event and is recorded
\* checkout-failed, and a format outcome is recorded only after a checkout
\* that succeeded.
IsPrefix(s, t) == Len(s) <= Len(t) /\ s = SubSeq(t, 1, Len(s))

C10_CheckoutBeforeFormat ==
    \A p \in ConfigProjects :
        /\ \/ IsPrefix(events[p], <<"checkout_start", "checkout_ok",
                                    "format_start", "format_done">>)
           \/ IsPrefix(events[p], <<"checkout_start", "checkout_error">>)
        /\ ~CheckoutOk(repo[p]) =>
              /\ \A i \in DOMAIN events[p] :
                    events[p][i] \notin {"format_start", "format_done"}
              /\ summary[p] \in {"none", "pending", "checkout_failed"}
        /\ summary[p] = "checkout_failed" =>
              events[p] = <<"checkout_start", "checkout_error">>
        /\ summary[p] \in {"clean", "changed", "format_failed"} =>
              events[p] = <<"checkout_start", "checkout_ok",
                            "format_start", "format_done">>

C10_Witness ==
    /\ Returned
    /\ workers = 2
    /\ \E p, q \in ConfigProjects :
          /\ summary[p] = "checkout_failed"
          /\ events[p] = <<"checkout_start", "checkout_error">>
          /\ summary[q] = "changed"
          /\ Len(events[q]) = 4

====
